---- MODULE Spec2Model ----
(***************************************************************************)
(* A model of the answer-grading engine of src/excel/judge.py.             *)
(*                                                                         *)
(* A text is a sequence of characters.  A character is a one-token string: *)
(* ASCII characters stand for themselves ("a", "8", ".", " "), a CJK       *)
(* ideograph is written as its capitalised pinyin ("Ru" for U+5982,        *)
(* "Xia" for U+4E0B), and the two full-width separators are "FwComma"      *)
(* (U+FF0C) and "FwSemi" (U+FF1B).  "Tab" is the tab character.            *)
(***************************************************************************)
EXTENDS Integers, Sequences, FiniteSets, TLC

VARIABLES
    pc,        \* position of the program run being modelled
    text,      \* normalize_text: the input string
    norms,     \* normalize_text: the successive results of applying it
    ai,        \* evaluate_row: the AI answer (raw)
    expected,  \* evaluate_row: the expected answer (raw)
    res,       \* evaluate_row: the returned dict, with the locals it was built from
    numA,      \* is_close_num: first argument
    numB,      \* is_close_num: second argument
    close,     \* is_close_num: its result
    rows,      \* evaluate_csv: the rows of the input table still to be read
    results,   \* evaluate_csv: the list `results`
    summary    \* summarize_and_write: the statistics of the report

vars == <<pc, text, norms, ai, expected, res, numA, numB, close, rows, results, summary>>

(***************************************************************************)
(* Character classes (Python 3 `re` on str: \d, \s, \w are Unicode-aware). *)
(***************************************************************************)
Digits == {"0", "1", "2", "3", "4", "5", "6", "7", "8", "9"}

LowerLetters == {"a", "b", "c", "d", "e", "o", "r", "s", "t", "w", "x"}

UpperLetters == {"A", "B"}

\* the ideographs of the filler phrases of judge.py:35
FillerIdeographs ==
    {"Cha", "Xun", "Jie", "Guo", "Xian", "Shi", "Ren", "Wu", "Zhi", "Xing",
     "Wan", "Cheng", "Fen", "Bie", "Wei", "Ru", "Xia", "De", "Ding", "Dan",
     "Shu", "Liang", "Qi", "Dei"}

\* other ideographs used in the inputs (all inside U+4E00..U+9FFF)
OtherIdeographs ==
    {"Nian", "Yue", "Ri", "He", "Zong", "Xiao", "Shou", "Ee", "Yuan", "Li", "Run"}

Ideographs == FillerIdeographs \cup OtherIdeographs

Whitespace == {" ", "Tab"}

\* \w : letters, digits, underscore; every ideograph is alphanumeric
WordChars == Digits \cup LowerLetters \cup UpperLetters \cup Ideographs \cup {"_"}

\* judge.py:33  the separator class
Separators == {",", "FwComma", ";", "FwSemi", "He", "&"}

\* judge.py:34  the date-marker class
DateMarkers == {"Nian", "Yue", "Ri"}

\* judge.py:38  the characters that the negated class does not match
KeptChars == WordChars \cup {"%", ".", "-", "/"} \cup Whitespace

\* judge.py:35  the alternatives of the filler pattern, in order
FillerPhrases ==
    << <<"Cha", "Xun", "Jie", "Guo", "Xian", "Shi">>,
       <<"Ren", "Wu", "Zhi", "Xing", "Wan", "Cheng">>,
       <<"Fen", "Bie", "Wei">>,
       <<"Ru", "Xia">>,
       <<"De", "Ding", "Dan", "Shu", "Liang", "Wei">>,
       <<"Qi", "Dei", "Fen", "Wei">> >>

IsDigitAt(s, i) == i >= 1 /\ i <= Len(s) /\ s[i] \in Digits

IsCharAt(s, i, c) == i >= 1 /\ i <= Len(s) /\ s[i] = c

\* s[i..] starts with p
StartsWithAt(s, i, p) ==
    /\ i + Len(p) - 1 <= Len(s)
    /\ \A k \in 1..Len(p) : s[i + k - 1] = p[k]

\* str.lower() on one character
Lower(c) == CASE c = "A" -> "a" [] c = "B" -> "b" [] OTHER -> c

\* str.strip(): leading and trailing whitespace removed
RECURSIVE LStrip(_)
LStrip(s) == IF s # <<>> /\ Head(s) \in Whitespace THEN LStrip(Tail(s)) ELSE s

RECURSIVE RStrip(_)
RStrip(s) ==
    IF s # <<>> /\ s[Len(s)] \in Whitespace THEN RStrip(SubSeq(s, 1, Len(s) - 1)) ELSE s

Strip(s) == RStrip(LStrip(s))

(***************************************************************************)
(* normalize_date: re.sub of (\d{4})Nian(\d{1,2})Yue(\d{1,2})Ri by \1-\2-\3.  *)
(* DateMatchAt is the match that starts at i: its length (0: none) and its *)
(* replacement.  \d{1,2} is greedy, and what follows it is never a digit,  *)
(* so the month (day) is the run of at most two digits before Yue (Ri).     *)
(***************************************************************************)
DigitRun2(s, i) == IF IsDigitAt(s, i) /\ IsDigitAt(s, i + 1) THEN 2
                   ELSE IF IsDigitAt(s, i) THEN 1 ELSE 0

DateMatchAt(s, i) ==
    LET m == DigitRun2(s, i + 5)
        d == DigitRun2(s, i + 5 + m + 1)
        ok == /\ \A k \in 0..3 : IsDigitAt(s, i + k)
              /\ IsCharAt(s, i + 4, "Nian")
              /\ m > 0
              /\ IsCharAt(s, i + 5 + m, "Yue")
              /\ d > 0
              /\ IsCharAt(s, i + 5 + m + 1 + d, "Ri")
    IN  IF ok
        THEN [len  |-> 5 + m + 1 + d + 1,
              repl |-> SubSeq(s, i, i + 3) \o <<"-">> \o SubSeq(s, i + 5, i + 4 + m)
                       \o <<"-">> \o SubSeq(s, i + 6 + m, i + 5 + m + d)]
        ELSE [len |-> 0, repl |-> <<>>]

RECURSIVE DateSubFrom(_, _)
DateSubFrom(s, i) ==
    IF i > Len(s) THEN <<>>
    ELSE LET m == DateMatchAt(s, i)
         IN  IF m.len > 0 THEN m.repl \o DateSubFrom(s, i + m.len)
             ELSE <<s[i]>> \o DateSubFrom(s, i + 1)

normalize_date(s) == DateSubFrom(s, 1)

(***************************************************************************)
(* The steps of normalize_text, one operator per re.sub.                   *)
(***************************************************************************)
\* re.sub(class, " ", s) and re.sub(class, "-", s): one character for one
MapChars(s, class, to) == [i \in 1..Len(s) |-> IF s[i] \in class THEN to ELSE s[i]]

\* length of the filler phrase that starts at i, 0 when none does
FillerLenAt(s, i) ==
    LET hits == {k \in 1..Len(FillerPhrases) : StartsWithAt(s, i, FillerPhrases[k])}
    IN  IF hits = {} THEN 0
        ELSE Len(FillerPhrases[CHOOSE k \in hits : \A j \in hits : k <= j])

\* judge.py:35  one left-to-right pass; what a removal brings together is not rescanned
RECURSIVE RemoveFillersFrom(_, _)
RemoveFillersFrom(s, i) ==
    IF i > Len(s) THEN <<>>
    ELSE LET n == FillerLenAt(s, i)
         IN  IF n > 0 THEN RemoveFillersFrom(s, i + n)
             ELSE <<s[i]>> \o RemoveFillersFrom(s, i + 1)

RemoveFillers(s) == RemoveFillersFrom(s, 1)

\* judge.py:36  \.0\b : ".0" followed by a non-word character or the end
DotZeroAt(s, i) ==
    /\ IsCharAt(s, i, ".")
    /\ IsCharAt(s, i + 1, "0")
    /\ (i + 2 > Len(s) \/ s[i + 2] \notin WordChars)

RECURSIVE StripDotZeroFrom(_, _)
StripDotZeroFrom(s, i) ==
    IF i > Len(s) THEN <<>>
    ELSE IF DotZeroAt(s, i) THEN StripDotZeroFrom(s, i + 2)
    ELSE <<s[i]>> \o StripDotZeroFrom(s, i + 1)

StripDotZero(s) == StripDotZeroFrom(s, 1)

\* judge.py:37,39  re.sub(r"\s+", " ", s)
RECURSIVE CollapseSpaceFrom(_, _)
CollapseSpaceFrom(s, i) ==
    IF i > Len(s) THEN <<>>
    ELSE IF s[i] \in Whitespace
         THEN IF i > 1 /\ s[i - 1] \in Whitespace THEN CollapseSpaceFrom(s, i + 1)
              ELSE <<" ">> \o CollapseSpaceFrom(s, i + 1)
    ELSE <<s[i]>> \o CollapseSpaceFrom(s, i + 1)

CollapseSpace(s) == CollapseSpaceFrom(s, 1)

\* judge.py:38  every character outside KeptChars becomes a space
BlankOthers(s) == [i \in 1..Len(s) |-> IF s[i] \in KeptChars THEN s[i] ELSE " "]

LowerText(s) == [i \in 1..Len(s) |-> Lower(s[i])]

normalize_text(s) ==
    LET s1 == Strip(s)
        s2 == normalize_date(s1)
        s3 == MapChars(s2, Separators, " ")
        s4 == MapChars(s3, DateMarkers, "-")
        s5 == RemoveFillers(s4)
        s6 == StripDotZero(s5)
        s7 == CollapseSpace(s6)
        s8 == BlankOthers(s7)
        s9 == Strip(CollapseSpace(s8))
    IN  LowerText(s9)

(***************************************************************************)
(* Tokenizers.                                                             *)
(***************************************************************************)
\* re.split(r'\s+|[-]', s): a run of whitespace or one hyphen ends an item;
\* empty items are kept (the result of splitting "" is the list [""]).
RECURSIVE RegexSplitFrom(_, _, _)
RegexSplitFrom(s, i, cur) ==
    IF i > Len(s) THEN <<cur>>
    ELSE IF s[i] \in Whitespace
         THEN IF i > 1 /\ s[i - 1] \in Whitespace THEN RegexSplitFrom(s, i + 1, cur)
              ELSE <<cur>> \o RegexSplitFrom(s, i + 1, <<>>)
    ELSE IF s[i] = "-" THEN <<cur>> \o RegexSplitFrom(s, i + 1, <<>>)
    ELSE RegexSplitFrom(s, i + 1, Append(cur, s[i]))

RegexSplit(s) == RegexSplitFrom(s, 1, <<>>)

\* str.split(): items between runs of whitespace, empty items dropped
RECURSIVE WordsFrom(_, _, _)
WordsFrom(s, i, cur) ==
    IF i > Len(s) THEN (IF cur = <<>> THEN <<>> ELSE <<cur>>)
    ELSE IF s[i] \in Whitespace
         THEN (IF cur = <<>> THEN <<>> ELSE <<cur>>) \o WordsFrom(s, i + 1, <<>>)
    ELSE WordsFrom(s, i + 1, Append(cur, s[i]))

Words(s) == WordsFrom(s, 1, <<>>)

Range(f) == {f[i] : i \in DOMAIN f}

\* ' '.join(items)
RECURSIVE Join(_)
Join(items) ==
    IF items = <<>> THEN <<>>
    ELSE IF Len(items) = 1 THEN items[1]
    ELSE items[1] \o <<" ">> \o Join(Tail(items))

\* needle in hay (Python's substring test; the empty string is in every string)
Contains(hay, needle) ==
    \E i \in 1..(Len(hay) - Len(needle) + 1) : StartsWithAt(hay, i, needle)

(***************************************************************************)
(* Numbers.  A float read from decimal text is kept exactly, as m / 10^k   *)
(* with no trailing zero in the fraction, so that equal values are equal   *)
(* records; a score is a fraction [n, d].                                  *)
(***************************************************************************)
RECURSIVE Pow10(_)
Pow10(k) == IF k = 0 THEN 1 ELSE 10 * Pow10(k - 1)

Abs(x) == IF x < 0 THEN -x ELSE x

Max(x, y) == IF x >= y THEN x ELSE y

Min(x, y) == IF x <= y THEN x ELSE y

RECURSIVE Canon(_)
Canon(x) == IF x.k > 0 /\ x.m % 10 = 0 THEN Canon([m |-> x.m \div 10, k |-> x.k - 1]) ELSE x

DigitVal(c) == CHOOSE v \in 0..9 : ToString(v) = c

\* the value of the digits s[i..j] (0 when the range is empty)
RECURSIVE DigitsValue(_, _, _)
DigitsValue(s, i, j) ==
    IF j < i THEN 0 ELSE 10 * DigitsValue(s, i, j - 1) + DigitVal(s[j])

\* length of the run of digits that starts at i
RECURSIVE DigitRun(_, _)
DigitRun(s, i) == IF IsDigitAt(s, i) THEN 1 + DigitRun(s, i + 1) ELSE 0

Frac(n, d) == [n |-> n, d |-> d]

\* x >= y, x > y and x = y for fractions with positive denominators
FracGeq(x, y) == x.n * y.d >= y.n * x.d

FracGt(x, y) == x.n * y.d > y.n * x.d

FracEq(x, y) == x.n * y.d = y.n * x.d

(***************************************************************************)
(* THRESHOLDS                                                              *)
(***************************************************************************)
\* "correct": 0.60 and "partial": 0.40, in hundredths
ThresholdCorrect == 60

ThresholdPartial == 40

\* "numeric_tol_rel": 1e-3 and "numeric_tol_abs": 1e-2, as 1/1000 and 1/100
NumericTolRelInv == 1000

NumericTolAbsInv == 100

\* "list_match_threshold": 0.7, in tenths
ListMatchThreshold == 7

(***************************************************************************)
(* Matching strategies.                                                    *)
(***************************************************************************)
\* is_contained with the expected text left as it was written
is_contained_raw_expected(exp_raw, ai_raw) ==
    Contains(normalize_text(ai_raw), exp_raw)

is_contained(exp_raw, ai_raw) ==
    LET exp_clean == normalize_text(exp_raw)
        ai_clean  == normalize_text(ai_raw)
    IN  Contains(ai_clean, exp_clean)

\* intersection / union if union else 0.0
Jaccard(sa, sb) ==
    LET union == Cardinality(sa \cup sb)
    IN  IF union # 0 THEN Frac(Cardinality(sa \cap sb), union) ELSE Frac(0, 1)

ListMatchOf(jaccard) ==
    [is_match |-> FracGeq(jaccard, Frac(ListMatchThreshold, 10)), jaccard |-> jaccard]

is_list_match(exp_raw, ai_raw) ==
    LET exp_clean == normalize_text(exp_raw)
        ai_clean  == normalize_text(ai_raw)
        exp_items == Range(RegexSplit(exp_clean))
        ai_items  == Range(RegexSplit(ai_clean))
    IN  ListMatchOf(Jaccard(exp_items, ai_items))

SelectItems(items, keep) == SelectSeq(items, LAMBDA it : it \in keep)

\* ' '.join(relevant_items) if relevant_items else norm_ai
JoinOrAll(relevant_items, norm_ai) ==
    IF relevant_items # <<>> THEN Join(relevant_items) ELSE norm_ai

RelevantOf(norm_ai, keywords) ==
    JoinOrAll(SelectItems(RegexSplit(norm_ai), keywords), norm_ai)

extract_relevant_text(ai_raw, exp_raw) ==
    RelevantOf(normalize_text(ai_raw), Range(RegexSplit(normalize_text(exp_raw))))

\* s.replace(",", "")
DropCommas(s) == SelectSeq(s, LAMBDA c : c # ",")

(***************************************************************************)
(* NUMBER_RE = [-+]?\d*\.\d+|[-+]?\d+ : the match that starts at i.  The    *)
(* first alternative is tried first; \d* and \d+ are greedy and what       *)
(* follows them is not a digit, so no shorter run can succeed.             *)
(***************************************************************************)
NumberMatchAt(s, i) ==
    LET signed == IsCharAt(s, i, "-") \/ IsCharAt(s, i, "+")
        j  == IF signed THEN i + 1 ELSE i
        n  == DigitRun(s, j)
        f  == IF IsCharAt(s, j + n, ".") THEN DigitRun(s, j + n + 1) ELSE 0
        sg == IF IsCharAt(s, i, "-") THEN -1 ELSE 1
    IN  IF f > 0
        THEN [len |-> (j - i) + n + 1 + f,
              val |-> Canon([m |-> sg * (DigitsValue(s, j, j + n - 1) * Pow10(f)
                                         + DigitsValue(s, j + n + 1, j + n + f)),
                             k |-> f])]
        ELSE IF n > 0
        THEN [len |-> (j - i) + n,
              val |-> [m |-> sg * DigitsValue(s, j, j + n - 1), k |-> 0]]
        ELSE [len |-> 0, val |-> [m |-> 0, k |-> 0]]

\* NUMBER_RE.findall: leftmost matches, left to right, not overlapping
RECURSIVE FindNumbersFrom(_, _)
FindNumbersFrom(s, i) ==
    IF i > Len(s) THEN <<>>
    ELSE LET m == NumberMatchAt(s, i)
         IN  IF m.len > 0 THEN <<m.val>> \o FindNumbersFrom(s, i + m.len)
             ELSE FindNumbersFrom(s, i + 1)

extract_numbers(s) == FindNumbersFrom(DropCommas(s), 1)

\* is_close_num with the relative tolerance taken of the first argument
is_close_num_anchored_first(a, b) ==
    LET D  == Max(a.k, b.k)
        A  == a.m * Pow10(D - a.k)
        B  == b.m * Pow10(D - b.k)
    IN  Abs(A - B) * NumericTolRelInv
            <= Max(Pow10(D) * (NumericTolRelInv \div NumericTolAbsInv), Abs(A))

\* abs(a - b) <= max(numeric_tol_abs, abs(b) * numeric_tol_rel), both sides
\* multiplied by 10^D * NumericTolRelInv, D the larger number of decimals
is_close_num(a, b) ==
    LET D  == Max(a.k, b.k)
        A  == a.m * Pow10(D - a.k)
        B  == b.m * Pow10(D - b.k)
    IN  Abs(A - B) * NumericTolRelInv
            <= Max(Pow10(D) * (NumericTolRelInv \div NumericTolAbsInv), Abs(B))

(***************************************************************************)
(* seq_ratio: difflib.SequenceMatcher(None, a, b).ratio().  No junk is     *)
(* configured and the automatic junk heuristic needs len(b) >= 200.        *)
(***************************************************************************)
\* length of the common run of a[i..ahi] and b[j..bhi]
RECURSIVE CommonRun(_, _, _, _, _, _)
CommonRun(a, b, i, j, ahi, bhi) ==
    IF i <= ahi /\ j <= bhi /\ a[i] = b[j]
    THEN 1 + CommonRun(a, b, i + 1, j + 1, ahi, bhi) ELSE 0

\* find_longest_match: of the longest common blocks of a[alo..ahi] and
\* b[blo..bhi] the one that starts earliest in a, then earliest in b
LongestMatch(a, b, alo, ahi, blo, bhi) ==
    LET cand == {<<i, j>> \in (alo..ahi) \X (blo..bhi) : a[i] = b[j]}
    IN  IF cand = {} THEN [i |-> alo, j |-> blo, k |-> 0]
        ELSE LET size(p) == CommonRun(a, b, p[1], p[2], ahi, bhi)
                 best == CHOOSE p \in cand :
                            \A q \in cand :
                               \/ size(p) > size(q)
                               \/ /\ size(p) = size(q)
                                  /\ (p[1] < q[1] \/ (p[1] = q[1] /\ p[2] <= q[2]))
             IN  [i |-> best[1], j |-> best[2], k |-> size(best)]

\* get_matching_blocks: the number of matched characters, found by taking the
\* longest block and recursing on what is left of it and right of it
RECURSIVE MatchedChars(_, _, _, _, _, _)
MatchedChars(a, b, alo, ahi, blo, bhi) ==
    IF alo > ahi \/ blo > bhi THEN 0
    ELSE LET x == LongestMatch(a, b, alo, ahi, blo, bhi)
         IN  IF x.k = 0 THEN 0
             ELSE x.k + MatchedChars(a, b, alo, x.i - 1, blo, x.j - 1)
                      + MatchedChars(a, b, x.i + x.k, ahi, x.j + x.k, bhi)

\* ratio(): 2.0 * matches / length, and 1.0 when both strings are empty
seq_ratio(a, b) ==
    LET length == Len(a) + Len(b)
    IN  IF length # 0 THEN Frac(2 * MatchedChars(a, b, 1, Len(a), 1, Len(b)), length)
        ELSE Frac(1, 1)

token_jaccard(a, b) ==
    LET sa == Range(Words(a))
        sb == Range(Words(b))
    IN  IF sa # {} /\ sb # {} THEN Frac(Cardinality(sa \cap sb), Cardinality(sa \cup sb))
        ELSE Frac(0, 1)

(***************************************************************************)
(* The numeric matching loop of evaluate_row (judge.py:126-133).  The pool *)
(* ai_nums_copy is kept as the positions in nums_ai still unconsumed, so   *)
(* that the result tells which occurrence each expected number took:       *)
(* pairs[n] = <<position in nums_exp, position in nums_ai>>.               *)
(***************************************************************************)
\* for a in ai_nums_copy: if is_close_num(a, e): ... break
FirstClose(nums_ai, pool, e) ==
    LET hits == {p \in 1..Len(pool) : is_close_num(nums_ai[pool[p]], e)}
    IN  IF hits = {} THEN 0 ELSE CHOOSE p \in hits : \A q \in hits : p <= q

\* list.remove(a): the first element equal to a goes
RemoveFirst(nums_ai, pool, a) ==
    LET q == CHOOSE q \in 1..Len(pool) :
                 /\ nums_ai[pool[q]] = a
                 /\ \A r \in 1..(q - 1) : nums_ai[pool[r]] # a
    IN  SubSeq(pool, 1, q - 1) \o SubSeq(pool, q + 1, Len(pool))

\* the inner loop without ai_nums_copy.remove(a)
ConsumeNothing(nums_ai, pool, p) == pool

\* what the inner loop does to the pool once it found pool[p] close to e
Consume(nums_ai, pool, p) == RemoveFirst(nums_ai, pool, nums_ai[pool[p]])

RECURSIVE MatchFrom(_, _, _, _)
MatchFrom(nums_exp, nums_ai, n, pool) ==
    IF n > Len(nums_exp) THEN <<>>
    ELSE LET p == FirstClose(nums_ai, pool, nums_exp[n])
         IN  IF p = 0 THEN MatchFrom(nums_exp, nums_ai, n + 1, pool)
             ELSE <<(<<n, pool[p]>>)>>
                  \o MatchFrom(nums_exp, nums_ai, n + 1, Consume(nums_ai, pool, p))

match_numbers(nums_exp, nums_ai) ==
    MatchFrom(nums_exp, nums_ai, 1, [i \in 1..Len(nums_ai) |-> i])

(***************************************************************************)
(* evaluate_row.  Verdicts and issue notes are named in English:           *)
(*   "Correct" / "PartiallyCorrect" / "Wrong" for the three verdict        *)
(*   strings, and one tag per issue text.  A score is an integer number of *)
(*   ten-thousandths (round(x, 4)); 1.0 is 10000.  The returned dict is    *)
(*   res.ret; res.rule names the return statement taken and res.loc holds  *)
(*   the locals of the function at that return.                            *)
(***************************************************************************)
\* the missing cell (NaN) of the input table; no text contains this token
Missing == <<"<NaN>">>

\* "" if pd.isna(x) else str(x)
safe_str(x) == IF x = Missing THEN <<>> ELSE x

Issue(tag) == [tag |-> tag, m |-> 0, n |-> 0]

\* the note of judge.py:137, which carries the two counts
NumPartialIssue(m, n) == [tag |-> "NumPartialMatch", m |-> m, n |-> n]

\* round(x, 4) of a fraction 0 <= x, in ten-thousandths (ties to even)
RECURSIVE ScaledDigits(_, _, _)
ScaledDigits(r, d, places) ==
    IF places = 0 THEN [q |-> 0, r |-> r]
    ELSE LET rest == ScaledDigits(r, d, places - 1)
         IN  [q |-> 10 * rest.q + (10 * rest.r) \div d, r |-> (10 * rest.r) % d]

RoundTo(x, places) ==
    LET whole == x.n \div x.d
        sd    == ScaledDigits(x.n % x.d, x.d, places)
        down  == whole * Pow10(places) + sd.q
    IN  IF 2 * sd.r > x.d \/ (2 * sd.r = x.d /\ down % 2 = 1) THEN down + 1 ELSE down

Round4(x) == RoundTo(x, 4)

\* the size notes appended by three separate if statements
DiagnosticsIndependent(norm_ai, norm_exp, list_jaccard, ratio) ==
    LET n_ai  == Len(Words(norm_ai))
        n_exp == Len(Words(norm_exp))
        same  == Range(Words(norm_ai)) = Range(Words(norm_exp))
        size  == (IF norm_ai = <<>> THEN <<Issue("AiAnswerEmpty")>> ELSE <<>>)
                 \o (IF 2 * n_ai < n_exp THEN <<Issue("AiTooShort")>> ELSE <<>>)
                 \o (IF n_ai > 3 * n_exp THEN <<Issue("AiTooLong")>> ELSE <<>>)
        sets  == IF ~same /\ FracGt(list_jaccard, Frac(1, 2)) THEN <<Issue("PartialOverlap")>>
                 ELSE IF same /\ ~FracGeq(ratio, Frac(8, 10)) THEN <<Issue("OrderDifference")>>
                 ELSE <<>>
    IN  size \o sets

\* judge.py:142-151
Diagnostics(norm_ai, norm_exp, list_jaccard, ratio) ==
    LET n_ai  == Len(Words(norm_ai))
        n_exp == Len(Words(norm_exp))
        same  == Range(Words(norm_ai)) = Range(Words(norm_exp))
        size  == IF norm_ai = <<>> THEN <<Issue("AiAnswerEmpty")>>
                 ELSE IF 2 * n_ai < n_exp THEN <<Issue("AiTooShort")>>
                 ELSE IF n_ai > 3 * n_exp THEN <<Issue("AiTooLong")>>
                 ELSE <<>>
        sets  == IF ~same /\ FracGt(list_jaccard, Frac(1, 2)) THEN <<Issue("PartialOverlap")>>
                 ELSE IF same /\ ~FracGeq(ratio, Frac(8, 10)) THEN <<Issue("OrderDifference")>>
                 ELSE <<>>
    IN  size \o sets

\* the weights of token_jaccard and num_score exchanged
CombinedWeightsSwapped(ratio, jacc, num_score, list_jaccard) ==
    LET D == ratio.d * jacc.d * num_score.d * list_jaccard.d
    IN  Frac(  20 * ratio.n * (D \div ratio.d)
             + 45 * jacc.n * (D \div jacc.d)
             + 15 * num_score.n * (D \div num_score.d)
             + 20 * list_jaccard.n * (D \div list_jaccard.d),
             100 * D)

\* judge.py:165  ratio * 0.2 + jacc * 0.15 + num_score * 0.45 + list_jaccard * 0.2
Combined(ratio, jacc, num_score, list_jaccard) ==
    LET D == ratio.d * jacc.d * num_score.d * list_jaccard.d
    IN  Frac(  20 * ratio.n * (D \div ratio.d)
             + 15 * jacc.n * (D \div jacc.d)
             + 45 * num_score.n * (D \div num_score.d)
             + 20 * list_jaccard.n * (D \div list_jaccard.d),
             100 * D)

\* judge.py:167-172
Verdict(combined) ==
    IF FracGeq(combined, Frac(ThresholdCorrect, 100)) THEN "Correct"
    ELSE IF FracGeq(combined, Frac(ThresholdPartial, 100)) THEN "PartiallyCorrect"
    ELSE "Wrong"

\* judge.py:134-137 and judge.py:142-151, from the values computed before them
LocalsWith(norm_exp, norm_ai, nums_ai, nums_exp, list_jaccard, ratio, jacc, pairs) ==
    LET num_score == IF nums_exp # <<>>
                     THEN (IF Len(pairs) <= Len(nums_exp) THEN Frac(Len(pairs), Len(nums_exp))
                           ELSE Frac(1, 1))
                     ELSE Frac(1, 2)
        numeric_match == IF nums_exp = <<>> THEN "None"
                         ELSE IF Len(pairs) = Len(nums_exp) THEN "True" ELSE "False"
        num_issue == IF nums_exp # <<>> /\ Len(pairs) # Len(nums_exp)
                     THEN <<NumPartialIssue(Len(pairs), Len(nums_exp))>> ELSE <<>>
    IN  [computed |-> TRUE, norm_exp |-> norm_exp, norm_ai |-> norm_ai,
         nums_ai |-> nums_ai, nums_exp |-> nums_exp, ratio |-> ratio, jacc |-> jacc,
         pairs |-> pairs, num_score |-> num_score, numeric_match |-> numeric_match,
         list_jaccard |-> list_jaccard,
         issues |-> num_issue \o Diagnostics(norm_ai, norm_exp, list_jaccard, ratio)]

\* judge.py:120-133: the two similarity scores and the numeric matching loop
LocalsOf(norm_exp, norm_ai, nums_ai, nums_exp, list_jaccard) ==
    LocalsWith(norm_exp, norm_ai, nums_ai, nums_exp, list_jaccard,
               seq_ratio(norm_ai, norm_exp),
               token_jaccard(norm_ai, norm_exp),
               IF nums_exp # <<>> THEN match_numbers(nums_exp, nums_ai) ELSE <<>>)

\* judge.py:116-151: the locals computed once neither early rule returned
RowLocals(ai_raw, exp_raw, list_jaccard) ==
    LocalsOf(normalize_text(exp_raw), extract_relevant_text(ai_raw, exp_raw),
             extract_numbers(ai_raw), extract_numbers(exp_raw), list_jaccard)

NoLocals == [computed |-> FALSE]

Returned(verdict, combined_score, ratio, issues, ai_raw, exp_raw) ==
    [ai_answer |-> ai_raw, expected_answer |-> exp_raw, verdict |-> verdict,
     combined_score |-> combined_score, seq_ratio |-> ratio, issues |-> issues]

\* the containment rule asking for equality where the code asks for a substring
ContainmentFiresOnEqual(ai_raw, exp_raw) ==
    exp_raw # <<>> /\ normalize_text(exp_raw) = normalize_text(ai_raw)

\* judge.py:94  the guard of the containment rule
ContainmentFires(ai_raw, exp_raw) == exp_raw # <<>> /\ is_contained(exp_raw, ai_raw)

\* the numeric rule without its guard on the expected numbers
NumericFullMatchUnlessFalse(loc) == loc.numeric_match # "False"

\* judge.py:154  the guard of the numeric-full-match rule
NumericFullMatch(loc) == loc.nums_exp # <<>> /\ loc.numeric_match = "True"

\* judge.py:161  the issue field of the numeric-full-match return
ShortcutIssues(loc) == <<Issue("NumbersFullyMatched")>>

\* judge.py:180  the issue field of the last return
WeightedIssues(loc) == loc.issues

\* judge.py:167-181
WeightedReturn(ai_raw, exp_raw, loc, combined) ==
    [ret  |-> Returned(Verdict(combined), Round4(combined), Round4(loc.ratio),
                       WeightedIssues(loc), ai_raw, exp_raw),
     rule |-> "weighted", loc |-> loc]

\* judge.py:153-181
AfterDiagnostics(ai_raw, exp_raw, loc) ==
    IF NumericFullMatch(loc)
    THEN [ret  |-> Returned("Correct", 10000, 10000, ShortcutIssues(loc), ai_raw, exp_raw),
          rule |-> "numeric_full_match", loc |-> loc]
    ELSE WeightedReturn(ai_raw, exp_raw, loc,
                        Combined(loc.ratio, loc.jacc, loc.num_score, loc.list_jaccard))

\* judge.py:106-181
AfterListMatch(ai_raw, exp_raw, lm) ==
    IF lm.is_match
    THEN [ret  |-> Returned("Correct", 10000, 10000, <<Issue("OrderDiffersContentSame")>>,
                            ai_raw, exp_raw),
          rule |-> "list_match", loc |-> NoLocals]
    ELSE AfterDiagnostics(ai_raw, exp_raw, RowLocals(ai_raw, exp_raw, lm.jaccard))

\* judge.py:93-181
EvaluateRaw(ai_raw, exp_raw) ==
    IF ContainmentFires(ai_raw, exp_raw)
    THEN [ret  |-> Returned("Correct", 10000, 10000, <<>>, ai_raw, exp_raw),
          rule |-> "containment", loc |-> NoLocals]
    ELSE AfterListMatch(ai_raw, exp_raw, is_list_match(exp_raw, ai_raw))

evaluate_row(ai_in, expected_in) == EvaluateRaw(safe_str(ai_in), safe_str(expected_in))

(***************************************************************************)
(* Inputs.                                                                 *)
(***************************************************************************)
\* all texts of at most n characters of alpha
Texts(alpha, n) == UNION {[1..k -> alpha] : k \in 0..n}

MaxAiLen == 3

MaxExpLen == 2

MaxContainLen == 3

MaxNormLen == 4

\* characters of the exhaustively enumerated answer pairs: a letter, a digit,
\* the two item separators of the tokenizer and the decimal point
EvalAlphabet == {"a", "1", " ", "-", "."}

\* characters of the expected texts of the containment property: a filler
\* phrase, ".0", a separator, a dropped character, an upper-case letter
ContainAlphabet == {"Ru", "Xia", ".", "0", " ", ",", "!", "A"}

\* characters of the texts normalize_text is applied to
NormAlphabet == {"Ru", "Xia", ".", "0", "1", " ", ",", "!"}

ExtraWords == <<" ", "e", "x", "t", "r", "a", " ", "w", "o", "r", "d", "s">>

\* named answer pairs <<ai, expected>>
TotalIs88 == << <<"Zong", "Shu", "Wei", "8", "8", ".", "0">>, <<"8", "8">> >>

SalesAndProfit ==
    << <<"Cha", "Xun", "Jie", "Guo", "Xian", "Shi", "Xiao", "Shou", "Ee", "Wei",
         "1", "0", "0", "0", "Yuan", "FwComma", "Li", "Run", "Wei", "2", "0", "0", "Yuan">>,
       <<"Xiao", "Shou", "Ee", "1", "0", "0", "0", ",", "Li", "Run", "2", "0", "0">> >>

\* "1.005 0.995" and "0.995 1.005" against "1 1.01": 1.005 is close to both
\* expected numbers, 0.995 to the first one only
CloseToBothFirst ==
    << <<"1", ".", "0", "0", "5", " ", "0", ".", "9", "9", "5">>,
       <<"1", " ", "1", ".", "0", "1">> >>

CloseToBothLast ==
    << <<"0", ".", "9", "9", "5", " ", "1", ".", "0", "0", "5">>,
       <<"1", " ", "1", ".", "0", "1">> >>

ScenarioPairs ==
    { TotalIs88, SalesAndProfit,
      << <<"1">>, <<"a", " ", "1", " ", "b">> >>,
      << <<"1">>, <<"a", " ", "b", " ", "c", " ", "1">> >>,
      << <<"a", " ", "b", " ", "c", " ", "e">>, <<"a", " ", "b", " ", "c", " ", "d">> >>,
      << <<"a", " ", "c">>, <<"a", " ", "b">> >>,
      << <<"b", " ", "a", " ", "d", " ", "c">>, <<"a", " ", "b", " ", "c">> >>,
      << <<"1", "0", "0", ".", "0", "9">>, <<"a", "1", "0", "0">> >>,
      << <<"1", "0", "0", ".", "2">>, <<"a", "1", "0", "0">> >>,
      << <<"1", " ", "2">>, <<"a", "1", "b", "1", "c", "2">> >>,
      << <<"a", " ", "a", " ", "a", " ", "a">>, <<"a", "b">> >>,
      << <<>>, <<"a", " ", "b", " ", "c">> >>,
      << <<"a">>, <<"a", " ", "b", " ", "c">> >>,
      << <<"1", " ", "1">>, <<"a", "1", "b", "1">> >>,
      << <<"1">>, <<"a", "1", "b", "1">> >>,
      << <<"a", "b", "c">>, <<",">> >>,
      << <<"a", "b", "c">>, <<"Ru", "Xia">> >>,
      CloseToBothFirst, CloseToBothLast }

GridPairs == Texts(EvalAlphabet, MaxAiLen) \X Texts(EvalAlphabet, MaxExpLen)

ContainPairs == {<<e \o ExtraWords, e>> : e \in Texts(ContainAlphabet, MaxContainLen) \ {<<>>}}

EvalInputs == GridPairs \cup ContainPairs \cup ScenarioPairs

(***************************************************************************)
(* Spec: one call of evaluate_row on an answer pair.                       *)
(***************************************************************************)
NoResult == [rule |-> "none"]

Zero == [m |-> 0, k |-> 0]

NoSummary == [written |-> FALSE]

IdleNorm == text = <<>> /\ norms = <<>>

IdleEval == ai = <<>> /\ expected = <<>> /\ res = NoResult

IdleNum == numA = Zero /\ numB = Zero /\ close = FALSE

IdleBatch == rows = <<>> /\ results = <<>> /\ summary = NoSummary

Init ==
    /\ pc = "start"
    /\ \E p \in EvalInputs : ai = p[1] /\ expected = p[2]
    /\ res = NoResult
    /\ IdleNorm /\ IdleNum /\ IdleBatch

EvaluateRow ==
    /\ pc = "start"
    /\ res' = evaluate_row(ai, expected)
    /\ pc' = "done"
    /\ UNCHANGED <<text, norms, ai, expected, numA, numB, close, rows, results, summary>>

Next == EvaluateRow

Spec == Init /\ [][Next]_vars

(***************************************************************************)
(* SpecNorm: normalize_text applied to a text, then to its own result.     *)
(***************************************************************************)
InitNorm ==
    /\ pc = "start"
    /\ text \in Texts(NormAlphabet, MaxNormLen)
    /\ norms = <<>>
    /\ IdleEval /\ IdleNum /\ IdleBatch

Normalize ==
    /\ pc = "start"
    /\ norms' = <<normalize_text(text)>>
    /\ pc' = "normalized"
    /\ UNCHANGED <<text, ai, expected, res, numA, numB, close, rows, results, summary>>

NormalizeAgain ==
    /\ pc = "normalized"
    /\ norms' = Append(norms, normalize_text(norms[Len(norms)]))
    /\ pc' = "done"
    /\ UNCHANGED <<text, ai, expected, res, numA, numB, close, rows, results, summary>>

NextNorm == Normalize \/ NormalizeAgain

SpecNorm == InitNorm /\ [][NextNorm]_vars

(***************************************************************************)
(* SpecNum: one call of is_close_num.  The second argument is one of the   *)
(* anchor values and the first lies within MaxDelta thousandths of it.     *)
(***************************************************************************)
MaxDelta == 1000

\* expected values, in thousandths: 0, 0.004, 1, 5, 20, 100, 999, 1000 and negatives
AnchorValues == {0, 4, 1000, 5000, 20000, 100000, 999000, 1000000, -1000, -100000, -999000}

Thousandths(x) == Canon([m |-> x, k |-> 3])

InitNum ==
    /\ pc = "start"
    /\ \E b \in AnchorValues, d \in (-MaxDelta)..MaxDelta :
          numB = Thousandths(b) /\ numA = Thousandths(b + d)
    /\ close = FALSE
    /\ IdleNorm /\ IdleEval /\ IdleBatch

IsCloseNum ==
    /\ pc = "start"
    /\ close' = is_close_num(numA, numB)
    /\ pc' = "done"
    /\ UNCHANGED <<text, norms, ai, expected, res, numA, numB, rows, results, summary>>

NextNum == IsCloseNum

SpecNum == InitNum /\ [][NextNum]_vars

(***************************************************************************)
(* SpecBatch: the program run of judge.py:255-257, evaluate_csv on a table *)
(* of at most MaxRows rows and then summarize_and_write.                   *)
(***************************************************************************)
MaxRows == 3

Row(id, file_name, content, expected_answer) ==
    [id |-> id, file_name |-> file_name, content |-> content,
     expected_answer |-> expected_answer]

\* the rows a table is made of: graded Correct, PartiallyCorrect, Wrong, and
\* a row whose AI answer cell is missing
RowKinds ==
    { Row("q1", "f1", <<"a", " ", "b">>, <<"a">>),
      Row("", "f1", <<"a", " ", "c">>, <<"a", " ", "b">>),
      Row("q3", "f2", <<"b">>, <<"a", " ", "b", " ", "c">>),
      Row("", "f2", Missing, <<"a", "1">>) }

Tables == UNION {[1..k -> RowKinds] : k \in 0..MaxRows}

\* DataFrame.fillna("") on one cell
FillNa(x) == IF x = Missing THEN <<>> ELSE x

\* row.get("id", f"row_{idx+1}") or f"row_{idx+1}"
RowId(row, idx) == IF row.id # "" THEN row.id ELSE "row_" \o ToString(idx + 1)

InitBatch ==
    /\ pc = "reading"
    /\ rows \in Tables
    /\ results = <<>>
    /\ summary = NoSummary
    /\ IdleNorm /\ IdleEval /\ IdleNum

\* judge.py:186-193  one iteration of the loop of evaluate_csv
ReadRow ==
    /\ pc = "reading"
    /\ rows # <<>>
    /\ LET row == Head(rows)
           r   == evaluate_row(FillNa(row.content), FillNa(row.expected_answer))
       IN  results' = Append(results,
                             [id |-> RowId(row, Len(results)), file_name |-> row.file_name,
                              ret |-> r.ret])
    /\ rows' = Tail(rows)
    /\ UNCHANGED <<pc, text, norms, ai, expected, res, numA, numB, close, summary>>

\* judge.py:194  return pd.DataFrame(results)
ReturnFrame ==
    /\ pc = "reading"
    /\ rows = <<>>
    /\ pc' = "summarize"
    /\ UNCHANGED <<text, norms, ai, expected, res, numA, numB, close, rows, results, summary>>

CountVerdict(rs, v) == Cardinality({i \in 1..Len(rs) : rs[i].ret.verdict = v})

RECURSIVE SumScores(_)
SumScores(rs) == IF rs = <<>> THEN 0 ELSE rs[1].ret.combined_score + SumScores(Tail(rs))

\* judge.py:202-204  how often each issue note occurs in the batch
IssueCounts(rs) ==
    LET notes == UNION {Range(rs[i].ret.issues) : i \in 1..Len(rs)}
    IN  [x \in notes |->
            Cardinality({<<i, j>> \in (1..Len(rs)) \X (1..4) :
                            j <= Len(rs[i].ret.issues) /\ rs[i].ret.issues[j] = x})]

\* judge.py:197-204  accuracy is in hundredths of a percent, avg_score in ten-thousandths
Statistics(rs) ==
    LET total   == Len(rs)
        correct == CountVerdict(rs, "Correct")
    IN  [written |-> TRUE, total |-> total, correct |-> correct,
         partial |-> CountVerdict(rs, "PartiallyCorrect"),
         wrong |-> CountVerdict(rs, "Wrong"),
         avg_score |-> IF total # 0 THEN RoundTo(Frac(SumScores(rs), total), 0) ELSE 0,
         accuracy |-> IF total # 0 THEN RoundTo(Frac(correct * 100, total), 2) ELSE 0,
         issue_counts |-> IssueCounts(rs)]

\* pd.DataFrame([]) has no columns: res_df["verdict"] (judge.py:198) raises KeyError
FrameHasColumns(rs) == rs # <<>>

SummarizeAndWrite ==
    /\ pc = "summarize"
    /\ IF FrameHasColumns(results)
       THEN summary' = Statistics(results) /\ pc' = "done"
       ELSE summary' = [written |-> FALSE, error |-> "KeyError"] /\ pc' = "raised"
    /\ UNCHANGED <<text, norms, ai, expected, res, numA, numB, close, rows, results>>

NextBatch == ReadRow \/ ReturnFrame \/ SummarizeAndWrite

SpecBatch == InitBatch /\ [][NextBatch]_vars

(***************************************************************************)
(* Properties.                                                             *)
(***************************************************************************)
Done == pc = "done"

HasIssue(issues, tag) == \E i \in 1..Len(issues) : issues[i].tag = tag

IsCorrectNoIssues(r) ==
    r.ret.verdict = "Correct" /\ r.ret.combined_score = 10000 /\ r.ret.issues = <<>>

\* a text holds a number (a match of NUMBER_RE) exactly when it holds a digit
HasNumber(s) == \E i \in 1..Len(s) : s[i] \in Digits

\* C1: for every non-empty expected text e, evaluate_row(e + " extra words", e)
\* is Correct with score 1.0 and no issue; and whenever the raw expected text
\* is non-empty and its normal form is a substring of the normal form of the
\* AI text, the containment rule is the one that returns.
C1_ContainmentCorrect ==
    Done =>
      /\ (expected # <<>> /\ ai = expected \o ExtraWords)
            => (res.rule = "containment" /\ IsCorrectNoIssues(res))
      /\ (expected # <<>> /\ Contains(normalize_text(ai), normalize_text(expected)))
            => (res.rule = "containment" /\ IsCorrectNoIssues(res))

\* C1 witness: an expected text that normalization changes (a filler phrase,
\* ".0", an upper-case letter ...), graded against itself plus " extra words"
C1_Witness ==
    /\ Done
    /\ expected # <<>>
    /\ ai = expected \o ExtraWords
    /\ normalize_text(expected) # expected
    /\ normalize_text(expected) # <<>>
    /\ res.rule = "containment"

\* C2 (as claimed): with the empty expected text no shortcut rule returns;
\* evaluate_row always reaches the weighted scoring.
C2_EmptyExpectedFallsThrough ==
    (Done /\ expected = <<>>) => res.rule = "weighted"

\* C3 (as claimed): evaluate_row("...88.0", "88") is Correct through the
\* numeric-full-match rule, its issue field being the single note
\* "numbers fully matched".
C3_NumericPriorityClaimed ==
    (Done /\ <<ai, expected>> = TotalIs88)
        => /\ res.ret.verdict = "Correct"
           /\ res.rule = "numeric_full_match"
           /\ res.ret.issues = <<Issue("NumbersFullyMatched")>>

\* C3 (amended): evaluate_row("...88.0", "88") is Correct with score 1.0
\* through the containment rule, which comes first, and its issue field is
\* empty.
C3_ContainmentWinsFirst ==
    (Done /\ <<ai, expected>> = TotalIs88)
        => (res.rule = "containment" /\ IsCorrectNoIssues(res))

C3_Witness == Done /\ <<ai, expected>> = TotalIs88 /\ res.rule = "containment"

\* C4: when neither the containment rule nor the list-match rule returned,
\* the numeric-full-match rule returns iff the expected text holds a number
\* and every expected number found a partner; its result is Correct, 1.0,
\* and the single note "numbers fully matched", whatever the diagnostics
\* were.  With no expected number it never returns and num_score is 0.5.
C4_NumericShortcut ==
    (Done /\ res.rule \notin {"containment", "list_match"}) =>
      /\ res.rule = "numeric_full_match"
            <=> /\ HasNumber(expected)
                /\ \A n \in 1..Len(res.loc.nums_exp) :
                      \E t \in 1..Len(res.loc.pairs) : res.loc.pairs[t][1] = n
      /\ res.rule = "numeric_full_match"
            => /\ res.ret.verdict = "Correct"
               /\ res.ret.combined_score = 10000
               /\ res.ret.issues = <<Issue("NumbersFullyMatched")>>
      /\ ~HasNumber(expected)
            => (res.rule = "weighted" /\ res.loc.num_score = Frac(1, 2))

\* C4 witness: the numeric rule returned although the diagnostics had notes
C4_Witness ==
    /\ Done
    /\ res.rule = "numeric_full_match"
    /\ res.loc.issues # <<>>

\* C5: when no shortcut rule returned, with
\*   combined = 0.20*seq_ratio + 0.15*token_jaccard + 0.45*num_score + 0.20*list_jaccard
\* the verdict is Correct iff combined >= 0.60, PartiallyCorrect iff
\* 0.40 <= combined < 0.60, Wrong iff combined < 0.40, and the issue field
\* is the list of the diagnostics step.  (Both sides of each comparison are
\* multiplied by 100 * D, D the product of the four denominators.)
C5_WeightedVerdict ==
    (Done /\ res.rule = "weighted") =>
      LET l == res.loc
          D == l.ratio.d * l.jacc.d * l.num_score.d * l.list_jaccard.d
          c == 20 * l.ratio.n * l.jacc.d * l.num_score.d * l.list_jaccard.d
             + 15 * l.jacc.n * l.ratio.d * l.num_score.d * l.list_jaccard.d
             + 45 * l.num_score.n * l.ratio.d * l.jacc.d * l.list_jaccard.d
             + 20 * l.list_jaccard.n * l.ratio.d * l.jacc.d * l.num_score.d
      IN  /\ res.ret.verdict = "Correct" <=> c >= 60 * D
          /\ res.ret.verdict = "PartiallyCorrect" <=> (c >= 40 * D /\ c < 60 * D)
          /\ res.ret.verdict = "Wrong" <=> c < 40 * D
          /\ res.ret.issues = l.issues

\* C5 witness: a weighted result in the middle band that carries a note
C5_Witness ==
    /\ Done
    /\ res.rule = "weighted"
    /\ res.ret.verdict = "PartiallyCorrect"
    /\ res.ret.issues # <<>>

\* C6 (as claimed): normalize_text(normalize_text(s)) = normalize_text(s).
C6_NormalizeIdempotent ==
    Len(norms) = 2 => norms[2] = norms[1]

\* C7: the numeric matching is one-to-one.  The expected numbers are taken
\* in order; each takes the first AI number not yet consumed that is close
\* to it; no AI number is paired twice; so the number of pairs is at most
\* min(|expected numbers|, |AI numbers|), an expected number without a pair
\* found every close AI number already consumed, and the match is full iff
\* every expected number has a pair.
C7_OneToOneMatching ==
    (Done /\ res.loc.computed /\ res.loc.nums_exp # <<>>) =>
      LET l  == res.loc
          ps == l.pairs
          takenBefore(j, n) == \E u \in 1..Len(ps) : ps[u][2] = j /\ ps[u][1] < n
      IN  /\ \A t \in 1..Len(ps) :
                /\ ps[t][1] \in 1..Len(l.nums_exp)
                /\ ps[t][2] \in 1..Len(l.nums_ai)
                /\ is_close_num(l.nums_ai[ps[t][2]], l.nums_exp[ps[t][1]])
                /\ \A j \in 1..(ps[t][2] - 1) :
                      is_close_num(l.nums_ai[j], l.nums_exp[ps[t][1]])
                          => takenBefore(j, ps[t][1])
          /\ \A t, u \in 1..Len(ps) :
                t < u => (ps[t][1] < ps[u][1] /\ ps[t][2] # ps[u][2])
          /\ \A n \in 1..Len(l.nums_exp) :
                (\A t \in 1..Len(ps) : ps[t][1] # n)
                    => \A j \in 1..Len(l.nums_ai) :
                          is_close_num(l.nums_ai[j], l.nums_exp[n]) => takenBefore(j, n)
          /\ Len(ps) <= Min(Len(l.nums_exp), Len(l.nums_ai))
          /\ l.numeric_match = "True"
                <=> \A n \in 1..Len(l.nums_exp) : \E t \in 1..Len(ps) : ps[t][1] = n

\* C7 witness: the expected text repeats a number the AI text holds once, so
\* the second occurrence finds its only partner consumed
C7_Witness ==
    /\ Done
    /\ res.loc.computed
    /\ Len(res.loc.nums_exp) >= 2
    /\ res.loc.nums_exp[1] = res.loc.nums_exp[2]
    /\ \E j \in 1..Len(res.loc.nums_ai) : res.loc.nums_ai[j] = res.loc.nums_exp[1]
    /\ \E t \in 1..Len(res.loc.pairs) : res.loc.pairs[t][1] = 1
    /\ \A t \in 1..Len(res.loc.pairs) : res.loc.pairs[t][1] # 2

\* the value of a number of SpecNum in thousandths
InThousandths(x) == x.m * Pow10(3 - x.k)

C9_SummaryConsistent ==
    pc \in {"done", "raised"} =>
      /\ summary.written
      /\ summary.total = Len(results)
      /\ summary.correct + summary.partial + summary.wrong = summary.total
      /\ summary.total > 0 =>
            2 * Abs(summary.accuracy * summary.total - summary.correct * 10000)
                <= summary.total
      /\ summary.total = 0 => summary.accuracy = 0

\* C10 (as claimed): the too-short note is in the list whenever the relevant
\* text has fewer than 0.5 x the tokens of the expected text, and the too-long
\* note whenever it has more than 3.0 x, whether or not the empty-answer note
\* was appended.
C10_SizeNotesIndependent ==
    (Done /\ res.loc.computed) =>
      LET n_ai  == Len(Words(res.loc.norm_ai))
          n_exp == Len(Words(res.loc.norm_exp))
      IN  /\ 2 * n_ai < n_exp => HasIssue(res.loc.issues, "AiTooShort")
          /\ n_ai > 3 * n_exp => HasIssue(res.loc.issues, "AiTooLong")

\* C10 (amended): the three size notes form one chain.  The empty-answer
\* note is appended iff the relevant text is empty; the too-short note iff
\* the relevant text is not empty and has fewer than 0.5 x the expected
\* tokens; the too-long note iff it is not empty and has more than 3.0 x.
\* The partial-overlap and ordering-difference notes never come together,
\* and each is appended on its own condition whatever the size note was.
C10_SizeNotesChained ==
    (Done /\ res.loc.computed) =>
      LET l     == res.loc
          n_ai  == Len(Words(l.norm_ai))
          n_exp == Len(Words(l.norm_exp))
          same  == Range(Words(l.norm_ai)) = Range(Words(l.norm_exp))
      IN  /\ HasIssue(l.issues, "AiAnswerEmpty") <=> l.norm_ai = <<>>
          /\ HasIssue(l.issues, "AiTooShort") <=> (l.norm_ai # <<>> /\ 2 * n_ai < n_exp)
          /\ HasIssue(l.issues, "AiTooLong") <=> (l.norm_ai # <<>> /\ n_ai > 3 * n_exp)
          /\ ~(HasIssue(l.issues, "PartialOverlap") /\ HasIssue(l.issues, "OrderDifference"))
          /\ HasIssue(l.issues, "PartialOverlap")
                <=> (~same /\ 2 * l.list_jaccard.n > l.list_jaccard.d)
          /\ HasIssue(l.issues, "OrderDifference")
                <=> (same /\ 10 * l.ratio.n < 8 * l.ratio.d)

\* C10 witness: an empty relevant text against a non-empty expected text:
\* fewer than half the tokens, and only the empty-answer note
C10_Witness ==
    /\ Done
    /\ res.loc.computed
    /\ res.loc.norm_ai = <<>>
    /\ Len(Words(res.loc.norm_exp)) > 0
    /\ HasIssue(res.loc.issues, "AiAnswerEmpty")
    /\ ~HasIssue(res.loc.issues, "AiTooShort")

\* C11 (as claimed): whenever evaluate_row returns through the containment
\* rule the normalized expected text is not empty, so an expected text of
\* separators, punctuation or filler phrases only is not graded Correct by
\* that rule.
C11_ContainmentNeedsNormalizedExpected ==
    (Done /\ res.rule = "containment") => normalize_text(expected) # <<>>

\* the ways of giving every expected number an AI number of its own that is
\* close to it
FullAssignments(nums_exp, nums_ai) ==
    {f \in [1..Len(nums_exp) -> 1..Len(nums_ai)] :
        /\ \A n \in 1..Len(nums_exp) : is_close_num(nums_ai[f[n]], nums_exp[n])
        /\ \A n, o \in 1..Len(nums_exp) : n # o => f[n] # f[o]}

\* C12 (as claimed): the numeric matching reports a full match whenever some
\* one-to-one assignment pairs every expected number with an AI number close
\* to it; the greedy result is that of a maximum matching.
C12_FullMatchIffAssignmentExists ==
    (Done /\ res.loc.computed /\ res.loc.nums_exp # <<>>) =>
      (res.loc.numeric_match = "True"
          <=> FullAssignments(res.loc.nums_exp, res.loc.nums_ai) # {})

====
